---------------------------- MODULE Spec2Model ----------------------------
(***************************************************************************)
(* Review scheduling engine of kw-backend: the UserSpecific review record  *)
(* (kw_webapp/models.py) with its grading, vacation and reset methods.     *)
(*                                                                         *)
(* A timestamp is an integer: the number of clock units elapsed since      *)
(* datetime.min in the timestamp's own time zone, SubPerSec units to the   *)
(* second (Python carries microseconds; the model carries a coarser        *)
(* sub-second part).  None is the absent timestamp.                        *)
(***************************************************************************)
EXTENDS Integers, FiniteSets, Sequences, TLC

(***************************************************************************)
(* Bounds of the model.                                                    *)
(***************************************************************************)
SubPerSec == 2        \* clock units per second
MaxCorrect == 8       \* answered_correctly stops counting here
MaxIncorrect == 5     \* answered_incorrectly stops counting here
MaxClock == 2         \* the clock takes the instants numbered 0..MaxClock
MaxVacation == 1      \* vacation durations are 1..MaxVacation steps

(***************************************************************************)
(* Python's datetime arithmetic.                                           *)
(***************************************************************************)
SecondsPerDay == 86400
SecondsPerHour == 3600
None == -1

(***************************************************************************)
(* kw_webapp/constants.py.                                                 *)
(***************************************************************************)
\* constants.REVIEW_ROUNDING_TIME.total_seconds(): the rounding granularity
REVIEW_ROUNDING_TIME == 3600
\* constants.WANIKANI_SRS_LEVELS[WkSrsLevel.BURNED.name][0]
BURN_THRESHOLD == 8
\* constants.SRS_TIMES: streak -> hours until the next review
SRS_TIMES == [s \in 1..(BURN_THRESHOLD - 1) |->
                CASE s = 1 -> 4 [] s = 2 -> 8 [] s = 3 -> 24 [] s = 4 -> 72
                  [] s = 5 -> 168 [] s = 6 -> 336 [] OTHER -> 720]
MINIMUM_ATTEMPT_COUNT_FOR_CRITICALITY == 5
\* constants.CRITICALITY_THRESHOLD, the fraction 4/5 = 0.8
CRITICALITY_THRESHOLD_NUM == 4
CRITICALITY_THRESHOLD_DEN == 5

(***************************************************************************)
(* Time helpers.                                                           *)
(***************************************************************************)
\* timedelta(hours=h) in clock units
timedelta_hours(h) == h * SecondsPerHour * SubPerSec

\* (t - t.min.replace(tzinfo=t.tzinfo)).seconds: whole seconds since midnight
seconds_of_day(t) == (t \div SubPerSec) % SecondsPerDay

\* the arithmetic shared by the three rounding methods: the timestamp moved
\* forward to the next multiple of the granularity after its whole second
round_up(t) ==
    LET round_to == REVIEW_ROUNDING_TIME
        seconds  == seconds_of_day(t)
        rounding == ((seconds + round_to) \div round_to) * round_to
    IN  t + (rounding - seconds) * SubPerSec

(***************************************************************************)
(* The record's methods, as functions from record to record.               *)
(***************************************************************************)
_can_be_critical(r) ==
    r.correct + r.incorrect >= MINIMUM_ATTEMPT_COUNT_FOR_CRITICALITY

\* float(incorrect) / float(correct + incorrect) >= 0.8; only evaluated when
\* the total is positive
_breaks_threshold(r) ==
    r.incorrect * CRITICALITY_THRESHOLD_DEN
        >= CRITICALITY_THRESHOLD_NUM * (r.correct + r.incorrect)

is_critical(r) == _can_be_critical(r) /\ _breaks_threshold(r)

\* the total that _breaks_threshold divides by
_breaks_threshold_divisor(r) == r.correct + r.incorrect

\* mutant: both operands of is_critical's condition are evaluated
_breaks_threshold_evaluated_eagerly(r) == TRUE

\* is_critical evaluates _breaks_threshold only when _can_be_critical
\* returned True: Python's `and` skips its right operand otherwise
_breaks_threshold_evaluated(r) == _can_be_critical(r)

\* float(incorrect) / float(0) raises ZeroDivisionError
ZeroDivisionError(r) ==
    _breaks_threshold_evaluated(r) /\ _breaks_threshold_divisor(r) = 0

\* mutant: the flag is raised but never lowered again
set_criticality_never_clears(r) ==
    [r EXCEPT !.critical = r.critical \/ is_critical(r)]

set_criticality(r) == [r EXCEPT !.critical = is_critical(r)]

_round_next_review_date(r) ==
    [r EXCEPT !.next_review_date = round_up(r.next_review_date)]

_round_last_studied_date(r) ==
    [r EXCEPT !.last_studied = round_up(r.last_studied)]

_round_last_studied_up(r) ==
    [r EXCEPT !.last_studied = round_up(r.last_studied)]

_round_review_time_up(r) ==
    _round_last_studied_date(_round_next_review_date(r))

round_times(r) ==
    IF r.streak \in DOMAIN SRS_TIMES
    THEN _round_last_studied_up(_round_review_time_up(r))
    ELSE r

\* mutant: the computed date is stored without rounding
set_next_review_time_unrounded(r, t) ==
    IF r.streak \notin DOMAIN SRS_TIMES
    THEN [r EXCEPT !.next_review_date = None]
    ELSE [r EXCEPT !.next_review_date = t + timedelta_hours(SRS_TIMES[r.streak])]

\* t is the value timezone.now() returns inside the method
set_next_review_time(r, t) ==
    IF r.streak \notin DOMAIN SRS_TIMES
    THEN [r EXCEPT !.next_review_date = None]
    ELSE _round_next_review_date(
            [r EXCEPT !.next_review_date = t + timedelta_hours(SRS_TIMES[r.streak])])

\* the tail every branch of answered_correctly shares (lines 240-243)
answered_correctly_tail(graded, t1, t2) ==
    set_criticality(set_next_review_time(
        [graded EXCEPT !.needs_review = FALSE, !.last_studied = t1], t2))

\* the record as set_next_review_time saves it inside answered_correctly
\* (line 315), before set_criticality runs
answered_correctly_scheduled(r, first_try, t1, t2) ==
    set_next_review_time(
        [ (IF r.streak = 0
           THEN [r EXCEPT !.streak = r.streak + 1]
           ELSE IF first_try
           THEN [r EXCEPT !.correct = r.correct + 1,
                          !.streak = r.streak + 1,
                          !.burned = IF r.streak + 1 >= BURN_THRESHOLD
                                     THEN TRUE ELSE r.burned]
           ELSE r)
          EXCEPT !.needs_review = FALSE, !.last_studied = t1 ], t2)

\* mutant: the burn check compares with > instead of >=
answered_correctly_burns_late(r, first_try, t1, t2) ==
    answered_correctly_tail(
        IF r.streak = 0
        THEN [r EXCEPT !.streak = r.streak + 1]
        ELSE IF first_try
        THEN [r EXCEPT !.correct = r.correct + 1,
                       !.streak = r.streak + 1,
                       !.burned = IF r.streak + 1 > BURN_THRESHOLD
                                  THEN TRUE ELSE r.burned]
        ELSE r, t1, t2)

\* mutant: the lesson branch counts the answer as a graded success
answered_correctly_counts_lesson(r, first_try, t1, t2) ==
    answered_correctly_tail(
        IF r.streak = 0
        THEN [r EXCEPT !.streak = r.streak + 1, !.correct = r.correct + 1]
        ELSE IF first_try
        THEN [r EXCEPT !.correct = r.correct + 1,
                       !.streak = r.streak + 1,
                       !.burned = IF r.streak + 1 >= BURN_THRESHOLD
                                  THEN TRUE ELSE r.burned]
        ELSE r, t1, t2)

\* mutant: first_try is not consulted, every correct answer advances
answered_correctly_ignores_first_try(r, first_try, t1, t2) ==
    answered_correctly_tail(
        IF r.streak = 0
        THEN [r EXCEPT !.streak = r.streak + 1]
        ELSE [r EXCEPT !.correct = r.correct + 1,
                       !.streak = r.streak + 1,
                       !.burned = IF r.streak + 1 >= BURN_THRESHOLD
                                  THEN TRUE ELSE r.burned], t1, t2)

\* mutant: a correct answer that was not the first try returns early
answered_correctly_skips_retry(r, first_try, t1, t2) ==
    IF r.streak = 0
    THEN answered_correctly_tail([r EXCEPT !.streak = r.streak + 1], t1, t2)
    ELSE IF first_try
    THEN answered_correctly_tail(
            [r EXCEPT !.correct = r.correct + 1,
                      !.streak = r.streak + 1,
                      !.burned = IF r.streak + 1 >= BURN_THRESHOLD
                                 THEN TRUE ELSE r.burned], t1, t2)
    ELSE r

\* mutant: a lesson is acknowledged but not promoted
answered_correctly_keeps_lesson(r, first_try, t1, t2) ==
    answered_correctly_tail(
        IF r.streak = 0
        THEN r
        ELSE IF first_try
        THEN [r EXCEPT !.correct = r.correct + 1,
                       !.streak = r.streak + 1,
                       !.burned = IF r.streak + 1 >= BURN_THRESHOLD
                                  THEN TRUE ELSE r.burned]
        ELSE r, t1, t2)

\* mutant: the burn check is made one stage early
answered_correctly_burns_early(r, first_try, t1, t2) ==
    answered_correctly_tail(
        IF r.streak = 0
        THEN [r EXCEPT !.streak = r.streak + 1]
        ELSE IF first_try
        THEN [r EXCEPT !.correct = r.correct + 1,
                       !.streak = r.streak + 1,
                       !.burned = IF r.streak + 1 >= BURN_THRESHOLD - 1
                                  THEN TRUE ELSE r.burned]
        ELSE r, t1, t2)

\* t1 is the clock read for last_studied, t2 the later read of
\* set_next_review_time
answered_correctly(r, first_try, t1, t2) ==
    LET graded ==
            IF r.streak = 0
            THEN [r EXCEPT !.streak = r.streak + 1]
            ELSE IF first_try
            THEN [r EXCEPT !.correct = r.correct + 1,
                           !.streak = r.streak + 1,
                           !.burned = IF r.streak + 1 >= BURN_THRESHOLD
                                      THEN TRUE ELSE r.burned]
            ELSE r
    IN  answered_correctly_tail(graded, t1, t2)

\* mutant: the single decrement also applies at streak 1
answered_incorrectly_saved_drops_to_lesson(r) ==
    LET counted == [r EXCEPT !.incorrect = r.incorrect + 1]
        dropped == IF counted.streak = 7
                   THEN [counted EXCEPT !.streak = counted.streak - 2]
                   ELSE IF counted.streak >= 1
                   THEN [counted EXCEPT !.streak = counted.streak - 1]
                   ELSE counted
    IN  [dropped EXCEPT !.streak = IF dropped.streak > 0 THEN dropped.streak ELSE 0]

\* mutant: no double decrement for the stage before burn
answered_incorrectly_saved_single_drop(r) ==
    LET counted == [r EXCEPT !.incorrect = r.incorrect + 1]
        dropped == IF counted.streak > 1
                   THEN [counted EXCEPT !.streak = counted.streak - 1]
                   ELSE counted
    IN  [dropped EXCEPT !.streak = IF dropped.streak > 0 THEN dropped.streak ELSE 0]

\* mutant: the double decrement applies from streak 7 upwards
answered_incorrectly_saved_double_from_7(r) ==
    LET counted == [r EXCEPT !.incorrect = r.incorrect + 1]
        dropped == IF counted.streak >= 7
                   THEN [counted EXCEPT !.streak = counted.streak - 2]
                   ELSE IF counted.streak > 1
                   THEN [counted EXCEPT !.streak = counted.streak - 1]
                   ELSE counted
    IN  [dropped EXCEPT !.streak = IF dropped.streak > 0 THEN dropped.streak ELSE 0]

\* mutant: a wrong answer also takes back one counted success
answered_incorrectly_saved_uncounts(r) ==
    LET counted == [r EXCEPT !.incorrect = r.incorrect + 1,
                             !.correct = IF r.correct > 0 THEN r.correct - 1 ELSE 0]
        dropped == IF counted.streak = 7
                   THEN [counted EXCEPT !.streak = counted.streak - 2]
                   ELSE IF counted.streak > 1
                   THEN [counted EXCEPT !.streak = counted.streak - 1]
                   ELSE counted
    IN  [dropped EXCEPT !.streak = IF dropped.streak > 0 THEN dropped.streak ELSE 0]

\* mutant: the final clamp lifts a lesson to the lowest review level
answered_incorrectly_saved_clamps_to_review(r) ==
    LET counted == [r EXCEPT !.incorrect = r.incorrect + 1]
        dropped == IF counted.streak = 7
                   THEN [counted EXCEPT !.streak = counted.streak - 2]
                   ELSE IF counted.streak > 1
                   THEN [counted EXCEPT !.streak = counted.streak - 1]
                   ELSE counted
    IN  [dropped EXCEPT !.streak = IF dropped.streak > 1 THEN dropped.streak ELSE 1]

\* mutant: a wrong answer also clears the scheduled review
answered_incorrectly_saved_reschedules(r) ==
    LET counted == [r EXCEPT !.incorrect = r.incorrect + 1,
                             !.next_review_date = None]
        dropped == IF counted.streak = 7
                   THEN [counted EXCEPT !.streak = counted.streak - 2]
                   ELSE IF counted.streak > 1
                   THEN [counted EXCEPT !.streak = counted.streak - 1]
                   ELSE counted
    IN  [dropped EXCEPT !.streak = IF dropped.streak > 0 THEN dropped.streak ELSE 0]

\* mutant: every streak above 1 drops two levels
answered_incorrectly_saved_always_double(r) ==
    LET counted == [r EXCEPT !.incorrect = r.incorrect + 1]
        dropped == IF counted.streak > 1
                   THEN [counted EXCEPT !.streak = counted.streak - 2]
                   ELSE counted
    IN  [dropped EXCEPT !.streak = IF dropped.streak > 0 THEN dropped.streak ELSE 0]

\* mutant: a burned record that drops below the threshold is no longer burned
answered_incorrectly_saved_unburns(r) ==
    LET counted == [r EXCEPT !.incorrect = r.incorrect + 1]
        dropped == IF counted.streak = 7
                   THEN [counted EXCEPT !.streak = counted.streak - 2]
                   ELSE IF counted.streak > 1
                   THEN [counted EXCEPT !.streak = counted.streak - 1]
                   ELSE counted
    IN  [dropped EXCEPT !.streak = IF dropped.streak > 0 THEN dropped.streak ELSE 0,
                        !.burned = dropped.burned /\ dropped.streak >= BURN_THRESHOLD]

\* the record as answered_incorrectly saves it (line 261), before
\* set_criticality runs
answered_incorrectly_saved(r) ==
    LET counted == [r EXCEPT !.incorrect = r.incorrect + 1]
        dropped == IF counted.streak = 7
                   THEN [counted EXCEPT !.streak = counted.streak - 2]
                   ELSE IF counted.streak > 1
                   THEN [counted EXCEPT !.streak = counted.streak - 1]
                   ELSE counted
    IN  [dropped EXCEPT !.streak = IF dropped.streak > 0 THEN dropped.streak ELSE 0]

\* the in-memory record answered_incorrectly returns
answered_incorrectly(r) == set_criticality(answered_incorrectly_saved(r))

\* defined when r.last_studied is not None (None + timedelta raises)
bring_review_out_of_vacation(r, vacation_duration) ==
    LET shifted == [r EXCEPT !.last_studied = r.last_studied + vacation_duration]
    IN  IF shifted.streak \in DOMAIN SRS_TIMES
        THEN round_times(
                [shifted EXCEPT !.next_review_date =
                    shifted.last_studied + timedelta_hours(SRS_TIMES[shifted.streak])])
        ELSE [shifted EXCEPT !.next_review_date = None]

\* mutant: reset brings the record down to the lesson level
reset_to_lesson(r, t) ==
    [r EXCEPT !.streak = 0,
              !.last_studied = None,
              !.next_review_date = t,
              !.correct = 1,
              !.incorrect = 0,
              !.burned = FALSE,
              !.needs_review = TRUE]

\* mutant: the burned flag is left as it was
reset_keeps_burned(r, t) ==
    [r EXCEPT !.streak = 1,
              !.last_studied = None,
              !.next_review_date = t,
              !.correct = 1,
              !.incorrect = 0,
              !.needs_review = TRUE]

reset(r, t) ==
    [r EXCEPT !.streak = 1,
              !.last_studied = None,
              !.next_review_date = t,
              !.correct = 1,
              !.incorrect = 0,
              !.burned = FALSE,
              !.needs_review = TRUE]

(***************************************************************************)
(* State.                                                                  *)
(***************************************************************************)
VARIABLES
    rec,    \* the in-memory UserSpecific object
    db,     \* the row as last saved
    now,    \* the clock: what timezone.now() returns next
    pre,    \* rec as it was when the last method was called
    last,   \* the last method call: name, arguments, clock reads, outcome
            \* (raised: an exception left the method; error: its type)
    req,    \* the grading requests in flight on the stored row: position,
            \* operation, argument and the object the request works on
    hist    \* what has been called on the record since it was created:
            \* lesson: it was created as a lesson; first_try_success: an
            \* answered_correctly(first_try=True) was among the calls;
            \* first_tries: the number of calls when the record was created
            \* as a lesson and every call so far was
            \* answered_correctly(first_try=True), None otherwise

vars == <<rec, db, now, pre, last, req, hist>>

\* the clock visits, around each rounding boundary from 19:00:00 of day 0
\* on, the unit before the boundary, the boundary itself and the unit after
SlotUnits == REVIEW_ROUNDING_TIME * SubPerSec
ClockBase == 19 * SecondsPerHour * SubPerSec
ClockInstant(i) == ClockBase + (i \div 3) * SlotUnits + (i % 3) - 1
ClockValues == { ClockInstant(i) : i \in 0..MaxClock }
ClockStart == ClockInstant(0)

\* a vacation step: a day, half a rounding slot and one unit
VacationStep == SecondsPerDay * SubPerSec + (SlotUnits \div 2) + 1
VacationDurations == { k * VacationStep : k \in 1..MaxVacation }

\* a second clock read inside one method call: the same instant or one unit on
LaterReads(t) == { u \in ClockValues : t <= u /\ u <= t + 1 }

\* UserSpecific.objects.create(...): the field defaults
NewRecord(t, streak) ==
    [ correct |-> 0, incorrect |-> 0, streak |-> streak,
      last_studied |-> None, needs_review |-> TRUE,
      next_review_date |-> t, burned |-> FALSE, critical |-> FALSE ]

NoCall ==
    [ op |-> "create", first_try |-> FALSE, duration |-> 0,
      t1 |-> None, t2 |-> None, raised |-> FALSE,
      error |-> "none" ]

\* the submissions that may be in flight at once on one row
Requests == {1, 2}

\* no submission in flight
NoRequest ==
    [ pc |-> "idle", op |-> "none", first_try |-> FALSE,
      obj |-> NewRecord(ClockStart, 0) ]

\* create_lesson (streak 0) or create_review (streak 1)
Init ==
    /\ now = ClockStart
    /\ \E streak \in {0, 1} : rec = NewRecord(ClockStart, streak)
    /\ db = rec
    /\ pre = rec
    /\ last = NoCall
    /\ req = [i \in Requests |-> NoRequest]
    /\ hist = [ lesson |-> rec.streak = 0, first_try_success |-> FALSE,
                first_tries |-> IF rec.streak = 0 THEN 0 ELSE None ]

(***************************************************************************)
(* Operations.                                                             *)
(***************************************************************************)
Tick ==
    /\ \E t \in ClockValues : t > now /\ now' = t
    /\ UNCHANGED <<rec, db, pre, last, req, hist>>

\* the counters stop at MaxCorrect and MaxIncorrect
AnsweredCorrectly ==
    \E first_try \in BOOLEAN, t2 \in LaterReads(now) :
        /\ (rec.streak # 0 /\ first_try) => rec.correct < MaxCorrect
        /\ pre' = rec
        /\ rec' = answered_correctly(rec, first_try, now, t2)
        /\ db' = rec'
        /\ now' = t2
        /\ UNCHANGED req
        /\ hist' = [ hist EXCEPT
                       !.first_try_success = hist.first_try_success \/ first_try,
                       !.first_tries = IF first_try /\ hist.first_tries # None
                                       THEN hist.first_tries + 1 ELSE None ]
        /\ last' = [ op |-> "answered_correctly", first_try |-> first_try,
                     duration |-> 0, t1 |-> now, t2 |-> t2, raised |-> FALSE,
                     error |-> "none" ]

AnsweredIncorrectly ==
    /\ rec.incorrect < MaxIncorrect
    /\ pre' = rec
    /\ rec' = answered_incorrectly(rec)
    /\ db' = answered_incorrectly_saved(rec)
    /\ last' = [ op |-> "answered_incorrectly", first_try |-> FALSE,
                 duration |-> 0, t1 |-> None, t2 |-> None, raised |-> FALSE,
                 error |-> "none" ]
    /\ UNCHANGED <<now, req>>
    /\ hist' = [hist EXCEPT !.first_tries = None]

\* mutant: the next review date is cleared before last_studied is read, so
\* a failing call leaves a changed record behind
BringReviewOutOfVacation_clears_first ==
    \E d \in VacationDurations :
        /\ rec.last_studied <= now
        /\ pre' = rec
        /\ IF rec.last_studied = None
           THEN /\ rec' = [rec EXCEPT !.next_review_date = None]
                /\ UNCHANGED db
                /\ last' = [ op |-> "bring_review_out_of_vacation",
                             first_try |-> FALSE, duration |-> d,
                             t1 |-> None, t2 |-> None, raised |-> TRUE,
                             error |-> "TypeError" ]
           ELSE /\ rec' = bring_review_out_of_vacation(rec, d)
                /\ db' = rec'
                /\ last' = [ op |-> "bring_review_out_of_vacation",
                             first_try |-> FALSE, duration |-> d,
                             t1 |-> None, t2 |-> None, raised |-> FALSE,
                             error |-> "none" ]
        /\ UNCHANGED <<now, req>>
        /\ hist' = [hist EXCEPT !.first_tries = None]

\* None + timedelta raises TypeError before anything is assigned.  A record
\* is shifted only while its last_studied is not ahead of the clock, which
\* bounds the number of shifts in a row.
BringReviewOutOfVacation ==
    \E d \in VacationDurations :
        /\ rec.last_studied <= now
        /\ pre' = rec
        /\ IF rec.last_studied = None
           THEN /\ UNCHANGED <<rec, db>>
                /\ last' = [ op |-> "bring_review_out_of_vacation",
                             first_try |-> FALSE, duration |-> d,
                             t1 |-> None, t2 |-> None, raised |-> TRUE,
                             error |-> "TypeError" ]
           ELSE /\ rec' = bring_review_out_of_vacation(rec, d)
                /\ db' = rec'
                /\ last' = [ op |-> "bring_review_out_of_vacation",
                             first_try |-> FALSE, duration |-> d,
                             t1 |-> None, t2 |-> None, raised |-> FALSE,
                             error |-> "none" ]
        /\ UNCHANGED <<now, req>>
        /\ hist' = [hist EXCEPT !.first_tries = None]

Reset ==
    /\ pre' = rec
    /\ rec' = reset(rec, now)
    /\ db' = rec'
    /\ last' = [ op |-> "reset", first_try |-> FALSE, duration |-> 0,
                 t1 |-> now, t2 |-> None, raised |-> FALSE,
                 error |-> "none" ]
    /\ UNCHANGED <<now, req>>
    /\ hist' = [hist EXCEPT !.first_tries = None]

\* review.refresh_from_db(): the caller goes on with the stored row
RefreshFromDb ==
    /\ rec # db
    /\ pre' = rec
    /\ rec' = db
    /\ last' = [ op |-> "refresh_from_db", first_try |-> FALSE, duration |-> 0,
                 t1 |-> None, t2 |-> None, raised |-> FALSE,
                 error |-> "none" ]
    /\ UNCHANGED <<db, now, req, hist>>

Next ==
    \/ Tick
    \/ AnsweredCorrectly
    \/ AnsweredIncorrectly
    \/ BringReviewOutOfVacation
    \/ Reset
    \/ RefreshFromDb

Spec == Init /\ [][Next]_vars

(***************************************************************************)
(* Concurrent grading of one stored row.  Each request fetches the row     *)
(* into an object of its own, runs the method on it and saves it; save()   *)
(* writes every field of the object.  The clock stands still.  pre holds   *)
(* the stored row as it was when the first request of the pair fetched it. *)
(***************************************************************************)
GradingOps == { "answered_correctly", "answered_incorrectly" }

\* the storage collaborator's load: the request gets its own copy of the row
Load(i) ==
    \E op \in GradingOps, first_try \in BOOLEAN :
        /\ req[i].pc = "idle"
        /\ op = "answered_incorrectly" =>
              (~first_try /\ db.incorrect < MaxIncorrect)
        /\ (op = "answered_correctly" /\ db.streak # 0 /\ first_try) =>
              db.correct < MaxCorrect
        /\ req' = [req EXCEPT ![i] = [ pc |-> "loaded", op |-> op,
                                       first_try |-> first_try, obj |-> db ]]
        /\ pre' = IF \A j \in Requests : req[j].pc = "idle" THEN db ELSE pre
        /\ UNCHANGED <<rec, db, now, last, hist>>

\* answered_correctly up to the save inside set_next_review_time
SaveScheduled(i) ==
    /\ req[i].pc = "loaded"
    /\ req[i].op = "answered_correctly"
    /\ LET o == answered_correctly_scheduled(req[i].obj, req[i].first_try,
                                             now, now)
       IN  /\ db' = o
           /\ req' = [req EXCEPT ![i].pc = "scheduled", ![i].obj = o]
    /\ UNCHANGED <<rec, now, pre, last, hist>>

\* answered_correctly from set_criticality to its final save
SaveGraded(i) ==
    /\ req[i].pc = "scheduled"
    /\ LET o == set_criticality(req[i].obj)
       IN  /\ db' = o
           /\ req' = [req EXCEPT ![i].pc = "done", ![i].obj = o]
    /\ UNCHANGED <<rec, now, pre, last, hist>>

\* answered_incorrectly: its one save, then set_criticality on the object
SaveIncorrect(i) ==
    /\ req[i].pc = "loaded"
    /\ req[i].op = "answered_incorrectly"
    /\ db' = answered_incorrectly_saved(req[i].obj)
    /\ req' = [req EXCEPT ![i].pc = "done",
                          ![i].obj = answered_incorrectly(req[i].obj)]
    /\ UNCHANGED <<rec, now, pre, last, hist>>

\* the responses are out and the objects dropped
Respond ==
    /\ \A i \in Requests : req[i].pc \in { "idle", "done" }
    /\ \E i \in Requests : req[i].pc = "done"
    /\ req' = [i \in Requests |-> NoRequest]
    /\ UNCHANGED <<rec, db, now, pre, last, hist>>

NextConc ==
    \/ \E i \in Requests : Load(i)
    \/ \E i \in Requests : SaveScheduled(i)
    \/ \E i \in Requests : SaveGraded(i)
    \/ \E i \in Requests : SaveIncorrect(i)
    \/ Respond

SpecConc == Init /\ [][NextConc]_vars

(***************************************************************************)
(* Properties.                                                             *)
(***************************************************************************)
Graded(name) == last.op = name /\ ~last.raised

\* C1: in every reachable state, burned implies that next_review_date is
\* absent and needs_review is false.
C1_BurnedIsUnscheduled ==
    rec.burned => (rec.next_review_date = None /\ ~rec.needs_review)

\* C2: answered_correctly(first_try=True) on a record with streak >= 1 adds
\* exactly 1 to correct and to streak; when the new streak reaches the burn
\* threshold, burned is true and next_review_date is cleared.
C2_FirstTryAdvances ==
    (Graded("answered_correctly") /\ last.first_try /\ pre.streak >= 1) =>
        /\ rec.correct = pre.correct + 1
        /\ rec.streak = pre.streak + 1
        /\ rec.streak >= BURN_THRESHOLD =>
              (rec.burned /\ rec.next_review_date = None)

C2_Witness ==
    /\ Graded("answered_correctly") /\ last.first_try
    /\ pre.streak = BURN_THRESHOLD - 1 /\ ~pre.burned
    /\ rec.streak = BURN_THRESHOLD /\ rec.burned
    /\ rec.next_review_date = None

\* C3: answered_correctly on a lesson record (streak 0) yields streak 1 and
\* leaves correct unchanged, whatever first_try is.
C3_LessonBecomesReview ==
    (Graded("answered_correctly") /\ pre.streak = 0) =>
        (rec.streak = 1 /\ rec.correct = pre.correct)

C3_Witness ==
    /\ Graded("answered_correctly") /\ ~last.first_try
    /\ pre.streak = 0 /\ rec.streak = 1 /\ rec.correct = 0

\* C4: answered_incorrectly never increases the streak, and a streak of at
\* least 1 stays at least 1.
C4_IncorrectNeverBelowOne ==
    Graded("answered_incorrectly") =>
        /\ rec.streak <= pre.streak
        /\ pre.streak >= 1 => rec.streak >= 1

C4_Witness ==
    /\ Graded("answered_incorrectly")
    /\ pre.streak = 1 /\ rec.streak = 1 /\ rec.incorrect = pre.incorrect + 1

\* C5: at the stage before burn (streak = burn threshold - 1) one
\* answered_incorrectly yields streak = burn threshold - 3, clamped to at
\* least 1, and adds 1 to incorrect.
C5_DoubleDecrement ==
    (Graded("answered_incorrectly") /\ pre.streak = BURN_THRESHOLD - 1) =>
        /\ rec.streak = IF BURN_THRESHOLD - 3 >= 1 THEN BURN_THRESHOLD - 3 ELSE 1
        /\ rec.incorrect = pre.incorrect + 1

C5_Witness ==
    /\ Graded("answered_incorrectly")
    /\ pre.streak = 7 /\ rec.streak = 5
    /\ pre.incorrect = 2 /\ rec.incorrect = 3

\* C6: after answered_correctly and after answered_incorrectly, critical is
\* true exactly when correct + incorrect is at least the minimum attempt
\* count and incorrect / (correct + incorrect) is at least the threshold.
C6_CriticalAfterGrading ==
    (Graded("answered_correctly") \/ Graded("answered_incorrectly")) =>
        (rec.critical <=>
            /\ rec.correct + rec.incorrect >= MINIMUM_ATTEMPT_COUNT_FOR_CRITICALITY
            /\ rec.incorrect * CRITICALITY_THRESHOLD_DEN
                  >= CRITICALITY_THRESHOLD_NUM * (rec.correct + rec.incorrect))

C6_Witness ==
    /\ Graded("answered_incorrectly")
    /\ ~pre.critical /\ rec.critical
    /\ rec.correct = 1 /\ rec.incorrect = 4

\* C7: reset() yields streak 1, last_studied absent, next_review_date = now,
\* correct 1, incorrect 0, burned false and needs_review true, from any
\* state, burned ones included.
C7_ResetResult ==
    Graded("reset") =>
        /\ rec.streak = 1
        /\ rec.last_studied = None
        /\ rec.next_review_date = last.t1
        /\ rec.correct = 1
        /\ rec.incorrect = 0
        /\ ~rec.burned
        /\ rec.needs_review

C7_Witness ==
    /\ Graded("reset")
    /\ pre.burned /\ pre.streak >= BURN_THRESHOLD /\ pre.next_review_date = None
    /\ rec.streak = 1 /\ ~rec.burned /\ rec.next_review_date = last.t1

\* C8: for a non-burned record with a scheduled review,
\* bring_review_out_of_vacation(d) moves next_review_date by d, within one
\* rounding granularity.
C8_VacationShiftsByDuration ==
    ( /\ Graded("bring_review_out_of_vacation")
      /\ ~pre.burned /\ pre.next_review_date # None ) =>
        /\ rec.next_review_date # None
        /\ rec.next_review_date - pre.next_review_date - last.duration <= SlotUnits
        /\ pre.next_review_date + last.duration - rec.next_review_date <= SlotUnits

C10_NotFirstTryKeepsMastery ==
    (Graded("answered_correctly") /\ ~last.first_try /\ pre.streak >= 1) =>
        /\ rec.streak = pre.streak
        /\ rec.correct = pre.correct
        /\ rec.burned = pre.burned

C10_Witness ==
    /\ Graded("answered_correctly") /\ ~last.first_try
    /\ pre.streak >= 2 /\ rec.streak = pre.streak /\ rec.correct = pre.correct
    /\ pre.last_studied # last.t1 /\ rec.last_studied = last.t1

\* C11: after any answered_correctly call, whichever branch ran, needs_review
\* is false and last_studied is the clock value read in the call.
C11_CorrectStampsRecord ==
    Graded("answered_correctly") =>
        (~rec.needs_review /\ rec.last_studied = last.t1)

C11_Witness ==
    /\ Graded("answered_correctly") /\ ~last.first_try
    /\ pre.streak >= 1 /\ pre.needs_review /\ pre.last_studied = None
    /\ ~rec.needs_review /\ rec.last_studied = last.t1

\* C12: after any answered_incorrectly call needs_review is true.
C12_IncorrectNeedsReview ==
    Graded("answered_incorrectly") => rec.needs_review

\* C13: answered_incorrectly adds exactly 1 to incorrect, leaves correct
\* unchanged, and lowers a streak above 1 that is not the stage before burn
\* by exactly 1.
C13_IncorrectCountsAndDrops ==
    Graded("answered_incorrectly") =>
        /\ rec.incorrect = pre.incorrect + 1
        /\ rec.correct = pre.correct
        /\ (pre.streak > 1 /\ pre.streak # BURN_THRESHOLD - 1) =>
              rec.streak = pre.streak - 1

C13_Witness ==
    /\ Graded("answered_incorrectly")
    /\ pre.streak = BURN_THRESHOLD /\ rec.streak = BURN_THRESHOLD - 1
    /\ rec.incorrect = pre.incorrect + 1 /\ rec.correct = pre.correct

\* C14: in every reachable state, critical implies that correct + incorrect
\* is at least the minimum attempt count for criticality.
C14_CriticalNeedsAttempts ==
    rec.critical =>
        rec.correct + rec.incorrect >= MINIMUM_ATTEMPT_COUNT_FOR_CRITICALITY

\* C15: once the streak is at least 1 it stays at least 1 in every later
\* state: no step takes a record back to the lesson state.
C15_NeverBackToLesson ==
    [][rec.streak >= 1 => rec'.streak >= 1]_vars

C15_Witness ==
    /\ Graded("answered_incorrectly")
    /\ pre.streak = 1 /\ rec.streak = 1
    /\ pre.incorrect >= 1 /\ pre.correct >= 1

\* C16 as claimed: no step makes correct or incorrect smaller than it was.
C16_CountersNeverDecrease ==
    [][rec'.correct >= rec.correct /\ rec'.incorrect >= rec.incorrect]_vars

\* C16, amended: no step other than a reset makes correct or incorrect
\* smaller than it was (reset sets them to 1 and 0).
C16_CountersDecreaseOnlyOnReset ==
    [][rec' # reset(rec, now) =>
          (rec'.correct >= rec.correct /\ rec'.incorrect >= rec.incorrect)]_vars

C16_Witness ==
    /\ Graded("bring_review_out_of_vacation")
    /\ pre.correct >= 2 /\ pre.incorrect >= 1
    /\ rec.correct = pre.correct /\ rec.incorrect = pre.incorrect
    /\ rec.last_studied # pre.last_studied

\* C17: answered_correctly and answered_incorrectly on a burned record leave
\* streak, correct, incorrect, next_review_date, needs_review and burned as
\* they were.
C17_GradingBurnedIsNoOp ==
    ( /\ Graded("answered_correctly") \/ Graded("answered_incorrectly")
      /\ pre.burned ) =>
        /\ rec.streak = pre.streak
        /\ rec.correct = pre.correct
        /\ rec.incorrect = pre.incorrect
        /\ rec.next_review_date = pre.next_review_date
        /\ rec.needs_review = pre.needs_review
        /\ rec.burned = pre.burned

\* C19 as claimed: bring_review_out_of_vacation on a record whose
\* last_studied is absent signals InvalidStateError and leaves the record
\* unchanged.
C19_VacationSignalsInvalidState ==
    (last.op = "bring_review_out_of_vacation" /\ pre.last_studied = None) =>
        (last.raised /\ last.error = "InvalidStateError" /\ rec = pre)

\* C19, amended: bring_review_out_of_vacation on a record whose last_studied
\* is absent fails with the TypeError of None + timedelta and leaves the
\* record unchanged.
C19_VacationFailsUnchanged ==
    (last.op = "bring_review_out_of_vacation" /\ pre.last_studied = None) =>
        (last.raised /\ last.error = "TypeError" /\ rec = pre)

C19_Witness ==
    /\ last.op = "bring_review_out_of_vacation" /\ last.raised
    /\ pre.last_studied = None /\ pre.streak = 1 /\ pre.correct = 1
    /\ pre.next_review_date # None
    /\ rec = pre

\* the record's streak has no entry in the interval table and the record is
\* not burned on entry to the last operation
AbsentStreakUnburned ==
    /\ last.op \in { "answered_correctly", "answered_incorrectly",
                     "bring_review_out_of_vacation", "reset" }
    /\ pre.streak \notin DOMAIN SRS_TIMES
    /\ ~pre.burned

\* C20 as claimed: an operation on a record whose streak has no entry in the
\* interval table and that is not burned signals InvalidStateError instead
\* of producing a new state.
C20_AbsentStreakSignalsInvalidState ==
    AbsentStreakUnburned =>
        (last.raised /\ last.error = "InvalidStateError" /\ rec = pre)

\* C20, amended: on a record whose streak has no entry in the interval
\* table and that is not burned (a lesson), grading and reset produce a new
\* state without any error: answered_correctly promotes it to streak 1 and
\* schedules it, answered_incorrectly counts the miss and keeps streak and
\* next_review_date, reset sets streak 1.  Only bring_review_out_of_vacation
\* fails, with the TypeError of its absent last_studied.
C20_AbsentStreakProducesState ==
    AbsentStreakUnburned =>
        /\ last.op = "answered_correctly" =>
              /\ ~last.raised
              /\ rec.streak = pre.streak + 1
              /\ rec.correct = pre.correct
              /\ rec.next_review_date # None
        /\ last.op = "answered_incorrectly" =>
              /\ ~last.raised
              /\ rec.streak = pre.streak
              /\ rec.incorrect = pre.incorrect + 1
              /\ rec.next_review_date = pre.next_review_date
        /\ last.op = "reset" =>
              /\ ~last.raised
              /\ rec.streak = 1
        /\ last.op = "bring_review_out_of_vacation" =>
              /\ last.raised /\ last.error = "TypeError"
              /\ pre.last_studied = None
              /\ rec = pre

C20_Witness ==
    /\ Graded("answered_incorrectly")
    /\ pre.streak = 0 /\ ~pre.burned /\ pre.incorrect >= 1
    /\ rec.streak = 0 /\ rec.incorrect = pre.incorrect + 1

\* the row a grading request leaves in storage when it runs alone on row r
Stored(r, q) ==
    IF q.op = "answered_correctly"
    THEN answered_correctly(r, q.first_try, now, now)
    ELSE answered_incorrectly_saved(r)

\* C18: when two grading requests on the same stored row have both
\* finished, the stored row is what the two operations give when applied
\* one after the other in some order to the row the pair started from.
C18_ConcurrentGradingSerializable ==
    (\A i \in Requests : req[i].pc = "done") =>
        \/ db = Stored(Stored(pre, req[1]), req[2])
        \/ db = Stored(Stored(pre, req[2]), req[1])

\* C21: after answered_correctly, a resulting streak with an entry in the
\* interval table gives next_review_date = last_studied + the streak's
\* interval, rounded up; a resulting streak without an entry gives an
\* absent next_review_date.
C21_ReviewDateFromLastStudied ==
    Graded("answered_correctly") =>
        IF rec.streak \in DOMAIN SRS_TIMES
        THEN rec.next_review_date =
                round_up(rec.last_studied + timedelta_hours(SRS_TIMES[rec.streak]))
        ELSE rec.next_review_date = None

\* C22: the rounding step, as applied to the date answered_correctly
\* computes, yields the least boundary not before its input: never earlier
\* than the input, less than one granularity later, on a boundary, the
\* input itself when that is on a boundary, and unchanged by rounding again.
C22_RoundsToLeastBoundary ==
    (Graded("answered_correctly") /\ rec.streak \in DOMAIN SRS_TIMES) =>
        LET input  == last.t2 + timedelta_hours(SRS_TIMES[rec.streak])
            output == rec.next_review_date
        IN  /\ output >= input
            /\ output - input < SlotUnits
            /\ seconds_of_day(output) % REVIEW_ROUNDING_TIME = 0
            /\ seconds_of_day(input) % REVIEW_ROUNDING_TIME = 0 => output = input
            /\ round_up(output) = output

\* C23: after bring_review_out_of_vacation(d) on a record whose streak has
\* a table entry, last_studied is the old last_studied + d rounded up once,
\* at most one granularity later than old last_studied + d, and
\* next_review_date is old last_studied + d + the interval rounded up once.
C23_VacationRoundsOnce ==
    ( /\ Graded("bring_review_out_of_vacation")
      /\ pre.streak \in DOMAIN SRS_TIMES ) =>
        LET shifted == pre.last_studied + last.duration
        IN  /\ rec.last_studied = round_up(shifted)
            /\ rec.last_studied - shifted <= SlotUnits
            /\ rec.next_review_date =
                  round_up(shifted + timedelta_hours(SRS_TIMES[pre.streak]))

\* C24: answered_incorrectly leaves next_review_date, last_studied, correct
\* and burned as they were.
C24_IncorrectDoesNotReschedule ==
    Graded("answered_incorrectly") =>
        /\ rec.next_review_date = pre.next_review_date
        /\ rec.last_studied = pre.last_studied
        /\ rec.correct = pre.correct
        /\ rec.burned = pre.burned

C24_Witness ==
    /\ Graded("answered_incorrectly")
    /\ pre.next_review_date # None /\ pre.last_studied # None
    /\ pre.correct >= 2 /\ rec.streak < pre.streak
    /\ rec.next_review_date = pre.next_review_date
    /\ rec.last_studied = pre.last_studied
    /\ rec.correct = pre.correct

\* C25: after answered_incorrectly returns, the stored row's critical flag
\* is the criticality computed from the stored row's correct and incorrect.
C25_StoredCriticalIsCurrent ==
    Graded("answered_incorrectly") => (db.critical <=> is_critical(db))

\* C26 as claimed: after answered_incorrectly on any record, a lesson
\* included, the streak is at least 1.
C26_IncorrectClampsToOne ==
    Graded("answered_incorrectly") => rec.streak >= 1

\* C26, amended: after answered_incorrectly a record that had a streak of
\* at least 1 still has one, and a lesson (streak 0) is still a lesson: the
\* clamp is to a minimum of 0.
C26_IncorrectKeepsLesson ==
    Graded("answered_incorrectly") =>
        IF pre.streak = 0 THEN rec.streak = 0 ELSE rec.streak >= 1

C26_Witness ==
    /\ Graded("answered_incorrectly")
    /\ pre.streak = 0 /\ pre.incorrect = 0
    /\ rec.streak = 0 /\ rec.incorrect = 1

\* C27 as claimed: a record created as a lesson has streak 0 exactly when
\* no answered_correctly(first_try=True) has been called on it, whatever
\* else was called.
C27_LessonUntilFirstTrySuccess ==
    hist.lesson => (rec.streak = 0 <=> ~hist.first_try_success)

\* C27, amended: a record that has had an answered_correctly(first_try=True)
\* has streak >= 1, but not only such a record: streak is 0 exactly while a
\* record created as a lesson has had no answered_correctly at all and no
\* reset (its last_studied is absent and its correct is 0).
C27_LessonUntilAnsweredOrReset ==
    /\ hist.first_try_success => rec.streak >= 1
    /\ rec.streak = 0 <=>
          (hist.lesson /\ rec.last_studied = None /\ rec.correct = 0)

C27_Witness ==
    /\ hist.lesson /\ ~hist.first_try_success
    /\ Graded("answered_correctly") /\ ~last.first_try
    /\ pre.streak = 0 /\ pre.incorrect >= 1
    /\ rec.streak = 1

\* C28: once burned is true it is still true after answered_correctly,
\* answered_incorrectly and bring_review_out_of_vacation; reset, and only
\* reset, makes it false again.
C28_BurnedUntilReset ==
    pre.burned => (rec.burned <=> last.op # "reset")

C28_Witness ==
    /\ Graded("answered_incorrectly")
    /\ pre.burned /\ pre.streak = BURN_THRESHOLD
    /\ rec.burned /\ rec.streak = BURN_THRESHOLD - 1

\* C29: on a freshly created lesson that gets only
\* answered_correctly(first_try=True) calls, burned is true from the call
\* numbered BURN_THRESHOLD on and not before; and on any record each such
\* call adds 1 to the streak and leaves a record whose streak has reached
\* the threshold burned, so repeated first-try answers reach burned.
C29_BurnsAfterThresholdCalls ==
    /\ hist.first_tries # None =>
          /\ rec.streak = hist.first_tries
          /\ rec.burned <=> hist.first_tries >= BURN_THRESHOLD
    /\ (Graded("answered_correctly") /\ last.first_try) =>
          /\ rec.streak = pre.streak + 1
          /\ rec.streak >= BURN_THRESHOLD => rec.burned

C29_Witness ==
    /\ hist.first_tries = BURN_THRESHOLD
    /\ Graded("answered_correctly") /\ last.first_try
    /\ ~pre.burned /\ rec.burned

\* C30: the burned flag agrees with the streak: burned is true exactly when
\* the streak is at least the burn threshold.
C30_BurnedAgreesWithStreak ==
    rec.burned <=> rec.streak >= BURN_THRESHOLD

\* C31: in every reachable state, recomputing criticality on the record
\* does not divide by zero: _breaks_threshold is evaluated only when
\* correct + incorrect is at least the minimum attempt count, which is at
\* least 1.
C31_NoDivisionByZero ==
    /\ ~ZeroDivisionError(rec)
    /\ ~ZeroDivisionError(db)
    /\ _breaks_threshold_evaluated(rec) =>
          /\ _breaks_threshold_divisor(rec) >= MINIMUM_ATTEMPT_COUNT_FOR_CRITICALITY
          /\ _breaks_threshold_divisor(rec) >= 1

\* a lesson's first answered_correctly: set_criticality ran with both
\* counters at 0
C31_Witness ==
    /\ Graded("answered_correctly")
    /\ pre.streak = 0 /\ rec.streak = 1
    /\ rec.correct = 0 /\ rec.incorrect = 0
    /\ ~_breaks_threshold_evaluated(rec)
    /\ ~rec.critical

=============================================================================
